---- MODULE Spec2Model ----
(***************************************************************************)
(* Snipping-Lens: the snip-detection correlation engine.                   *)
(*                                                                         *)
(* Part W models the Windows build: tray_watchdog.py (the watch loop       *)
(* clipboard_monitor_loop), sniplens.py (the tray, which writes the        *)
(* trigger token) and config_window.py (which saves the mode), all of      *)
(* them reading and rewriting the one settings.json.                       *)
(***************************************************************************)
EXTENDS Integers, FiniteSets, Sequences, TLC

(***************************************************************************)
(* Bounds of the model.                                                    *)
(***************************************************************************)
\* user and environment events in one run: tray clicks, mode changes saved,
\* capture-tool sessions and clipboard changes
MaxEvents == 4
\* distinct pixel contents the clipboard can hold
NumImages == 2
\* seconds the clock advances in one run
MaxTicks == 6
\* process_screenshot threads started in one run
MaxDeliveries == 1
\* characters of a hosted file URL
MaxUrlLen == 3
\* fingerprints computed in one run of the fingerprint functions
MaxCalls == 3

(***************************************************************************)
(* Values.                                                                 *)
(***************************************************************************)
\* a key that settings.json does not hold
Absent == 0 - 1
\* no image on the clipboard / no fingerprint (None, "")
NoImage == 0
NoToken == 0
\* tray_status: 0 = Pause, 1 = Tray Only, 2 = Always On
StatusPause == 0
StatusTrayOnly == 1
StatusAlwaysOn == 2
\* an integer tray_status that is none of the three modes
StatusOther == 3
\* a tray_status that int() cannot convert (a hand-edited "on", null, a list)
NonNumeric == 0 - 2

\* each tray left-click makes a fresh uuid4
Tokens == 1..MaxEvents
Images == 1..NumImages
Modes == {StatusPause, StatusTrayOnly, StatusAlwaysOn}

\* hashlib.md5(pixels).hexdigest(): one fingerprint per pixel content
md5_image(pixels) == 100 + pixels

\* json.load of a settings.json that cannot be parsed is replaced by {} by
\* every reader modelled here, so a file open(.., "w") has just truncated
\* reads as the settings without any key
EmptySettings ==
    [tray_status |-> Absent, tray_snip_token |-> NoToken,
     last_detected_image |-> NoImage]

VARIABLES
    \* ---- shared between the three processes and the environment
    settings_json,      \* content of settings.json as json.load returns it
    clipboard,          \* pixel content on the clipboard, NoImage if none
    snip_running,       \* a capture tool is in the process table
    events,             \* user and environment events so far
    \* ---- tray_watchdog.clipboard_monitor_loop
    pc_w,               \* position in the loop
    last_snip_running,
    last_hash,
    hash_val,
    is_tray_snip,
    tray_status,
    do_upload,
    raw_w,              \* raw of the update_settings call in progress
    \* ---- sniplens.TrayApp.icon_clicked
    pc_t,
    raw_t,
    next_token,         \* the uuid4 the next click generates
    \* ---- config_window.on_status_toggle / save_settings
    pc_c,
    raw_c,
    \* ---- history of the run (not program state)
    observed,           \* per token: evaluations that saw it present (0, 1, 2 = more than once)
    saved_mode,         \* the tray_status the config window saved last (at first: the stored one)
    missed,             \* tokens stored while a capture came and went unseen by the watchdog
    consumed,           \* tokens whose deletion by the watchdog has been written
    seen_new,           \* fingerprint last treated as new, no different image since
    ev                  \* what the snip-close evaluation in progress has done

VARIABLES
    \* ---- snipping_lens.SnippingLens and its environment
    OS_PLATFORM,        \* platform.system(): "Windows" or "Linux"
    is_running,
    is_paused,
    last_clipboard_hash,
    last_snip_process_seen_time,
    now,                \* what time.time() returns
    tool_running,       \* a configured capture tool is in the process table
    os_clipboard,       \* what ImageGrab.grabclipboard() would return
    pc_mc,              \* position of monitor_clipboard
    current_hash,
    image_source_type,
    image_to_process,   \* the path handed on for a file image, 0 for a PIL image
    temp_linux_image_path,
    path_files,         \* files on disk that are known by their path
    pc_mp,              \* position of monitor_processes
    deliveries,         \* the process_screenshot threads started so far
    temp_files,         \* temporary files on disk, by the delivery that made them
    lens_events,        \* environment and user events so far
    process_state_lock, \* "free" or the thread that holds the lock
    time_since_process_seen,    \* the local of monitor_clipboard, line 425
    \* ---- history of the run (not program state)
    last_evaluated,     \* fingerprint last evaluated, nothing in between
    mp_aborted,         \* the last process scan was cut short with a tool running
    mc                  \* what the last clipboard evaluation did

VARIABLES
    \* ---- the pure functions
    hash_seed,          \* the per-process salt of Python's hash()
    fp_log,             \* the fingerprints computed so far, in order
    hosted_url,         \* the file URL an upload returned
    lens_url            \* the search URL built from it

VARIABLES
    \* ---- tray_watchdog.py: the exit signal file and the threads that poll it
    exit_watchdog,      \* the file .exit_watchdog exists
    tray_process,       \* a sniplens.py process is in the process table
    missing_counter,    \* the local of watchdog_tray_monitor
    pc_tm,              \* position of watchdog_tray_monitor
    pc_cl,              \* clipboard_monitor_loop: in its loop, or out of it
    pc_main,            \* position of the main thread
    q_events,           \* tray and console events so far
    \* ---- history of the run (not program state)
    tm_checks,          \* the results of the latest is_tray_running() checks
    main_removed,       \* the main thread has removed the exit signal file
    created_again       \* a watchdog thread created the file after that

varsS == <<exit_watchdog, tray_process, missing_counter, pc_tm, pc_cl, pc_main,
           q_events, tm_checks, main_removed, created_again>>

VARIABLES
    \* ---- singleton_lock, one entry per started process (its pid is its index)
    lockfile,           \* the lock file: absent, empty, or the pid written in it
    pc_lock,            \* position of each process
    \* ---- SettingsHandler and the tray_ui_enabled key of settings.json
    ui_enabled,         \* the value of tray_ui_enabled the file holds when whole
    file_whole,         \* FALSE between a writer's open("w") and its dump
    wr_value,           \* the value the writer in progress will store
    pc_wr,              \* position of the writer
    last_state,         \* SettingsHandler.last_state
    pending,            \* modification events not yet handled
    tray_up,            \* is_tray_running()
    h_events,           \* writes so far
    \* ---- history of the run (not program state)
    synced_value,       \* the stored value when the handler last compared
    h_action            \* what the last on_modified did to the tray

varsI == <<lockfile, pc_lock>>

varsH == <<ui_enabled, file_whole, wr_value, pc_wr, last_state, pending, tray_up,
           h_events, synced_value, h_action>>

\* the state of the Windows watchdog process outside clipboard_monitor_loop
varsQ == <<varsS, varsI, varsH>>

varsW == <<settings_json, clipboard, snip_running, events, pc_w, last_snip_running,
           last_hash, hash_val, is_tray_snip, tray_status, do_upload, raw_w,
           pc_t, raw_t, next_token, pc_c, raw_c,
           observed, missed, saved_mode, consumed, seen_new, ev>>

varsL == <<OS_PLATFORM, is_running, is_paused, last_clipboard_hash,
           last_snip_process_seen_time, now, tool_running, os_clipboard, pc_mc,
           current_hash, image_source_type, image_to_process, temp_linux_image_path,
           path_files, pc_mp, deliveries, temp_files, lens_events,
           process_state_lock, time_since_process_seen, last_evaluated,
           mp_aborted, mc>>

\* the inputs and results of the pure functions, for the specifications
\* that check them on their own
varsP == <<hash_seed, fp_log, hosted_url, lens_url>>

vars == <<varsW, varsL, varsP, varsQ>>

\* what an evaluation has done so far, reset when the next one starts
\* (in_flight follows a capture tool that opens while the POST is in flight)
NoEv == [read_clipboard |-> FALSE, dup |-> FALSE, token |-> NoToken,
         deleted |-> FALSE, new |-> FALSE, posted |-> FALSE, opened |-> FALSE,
         posts |-> 0, response |-> "none", url_saved |-> FALSE, in_flight |-> "none"]

\* what can come of lines 231-265 once the upload is decided:
\* "staging_raised": Image.frombytes or img.save raises (outside the try);
\* "ok": status 200 and a body that is a hosted file URL;
\* "bad_body": status 200 and any other body;
\* "non_200": any other status; "raised": requests.post raises
WdOutcomes == {"staging_raised", "ok", "bad_body", "non_200", "raised"}

\* line 250: if response.status_code == 200
UploadSucceeded(outcome) == outcome \in {"ok", "bad_body"}

(***************************************************************************)
(* settings.json                                                           *)
(***************************************************************************)
\* tray_watchdog.get_settings (and the read at the top of every
\* update_settings / save_settings)
get_settings == settings_json

\* tray_watchdog.get_tray_status: raw.get("tray_status", 0)
get_tray_status ==
    IF get_settings.tray_status = Absent THEN 0 ELSE get_settings.tray_status

DoUploadIgnoringMode(status, snip) == status = 2 \/ snip

\* the decision of line 227
DoUpload(status, snip) == status = 2 \/ (status = 1 /\ snip)

ConsumesTokenAlways(snip) == TRUE

\* line 217: the token is deleted when one was read
ConsumesToken(snip) == snip

TokenPresentIfFresh(tok) == tok # NoToken /\ tok \notin missed

\* line 215: is_tray_snip = bool(tray_snip_token)
TokenPresent(tok) == tok # NoToken

\* line 222: a new image is one whose fingerprint differs from last_hash
IsNewImage(h, last) == h # NoImage /\ h # last

\* where the evaluation goes after the token step
AfterToken == IF IsNewImage(hash_val, last_hash) THEN "ldi_read" ELSE "end"

InitW ==
    /\ settings_json \in
         [tray_status : Modes \cup {StatusOther, NonNumeric}, tray_snip_token : {NoToken},
          last_detected_image : {NoImage, md5_image(1)}]
    /\ clipboard = NoImage
    /\ snip_running = FALSE
    /\ events = 0
    /\ pc_w = "poll"
    /\ last_snip_running = FALSE
    /\ last_hash = settings_json.last_detected_image
    /\ hash_val = NoImage
    /\ is_tray_snip = FALSE
    /\ tray_status = 0
    /\ do_upload = FALSE
    /\ raw_w = EmptySettings
    /\ pc_t = "idle"
    /\ raw_t = EmptySettings
    /\ next_token = 1
    /\ pc_c = "idle"
    /\ raw_c = EmptySettings
    /\ observed = [t \in Tokens |-> 0]
    /\ missed = {}
    /\ saved_mode = settings_json.tray_status
    /\ consumed = {}
    /\ seen_new = NoImage
    /\ ev = NoEv

(***************************************************************************)
(* The environment: capture tools come and go, the clipboard changes.      *)
(***************************************************************************)
envW == <<clipboard, snip_running, events>>
wEval == <<hash_val, is_tray_snip, tray_status, do_upload>>
wLocals == <<pc_w, last_snip_running, last_hash, wEval, raw_w>>
tLocals == <<pc_t, raw_t, next_token>>
cLocals == <<pc_c, raw_c>>
history == <<observed, missed, saved_mode, consumed, seen_new, ev>>

\* a capture tool appears in the process table
SnipOpens ==
    /\ ~snip_running
    /\ events < MaxEvents
    /\ events' = events + 1
    /\ snip_running' = TRUE
    /\ ev' = [ev EXCEPT !.in_flight = IF pc_w = "post" THEN "open" ELSE @]
    /\ UNCHANGED <<varsL, varsP, varsQ, settings_json, clipboard, wLocals, tLocals, cLocals,
                   observed, missed, saved_mode, consumed, seen_new>>

\* the capture tool leaves the process table
SnipCloses ==
    /\ snip_running
    /\ snip_running' = FALSE
    /\ ev' = [ev EXCEPT !.in_flight = IF pc_w = "post" /\ @ = "open" THEN "closed" ELSE @]
    /\ missed' = IF ~last_snip_running
                 THEN missed \cup ({settings_json.tray_snip_token} \ {NoToken})
                 ELSE missed
    /\ UNCHANGED <<varsL, varsP, varsQ, settings_json, clipboard, events, wLocals, tLocals, cLocals,
                   observed, saved_mode, consumed, seen_new>>

\* the capture tool or any other program changes the clipboard
SetClipboard(c) ==
    /\ c # clipboard
    /\ events < MaxEvents
    /\ events' = events + 1
    /\ clipboard' = c
    /\ seen_new' = IF c # NoImage /\ md5_image(c) # seen_new THEN NoImage ELSE seen_new
    /\ UNCHANGED <<varsL, varsP, varsQ, settings_json, snip_running, wLocals, tLocals, cLocals,
                   observed, missed, saved_mode, consumed, ev>>

(***************************************************************************)
(* tray_watchdog.clipboard_monitor_loop                                    *)
(***************************************************************************)
ToolNotRunning(last, now_running) == ~now_running

\* line 209: if last_snip_running and not now_running
SnipJustClosed(last, now_running) == last /\ ~now_running

\* lines 207-209 and 273: poll the process table; a running -> closed edge
\* starts a snip-close evaluation
WdPoll ==
    /\ pc_w = "poll"
    /\ IF SnipJustClosed(last_snip_running, snip_running)
       THEN /\ pc_w' = "grab"
            /\ UNCHANGED last_snip_running
       ELSE /\ last_snip_running' = snip_running
            /\ UNCHANGED pc_w
    /\ ev' = [ev EXCEPT !.in_flight = "none"]
    /\ UNCHANGED <<varsL, varsP, varsQ, settings_json, envW, last_hash, wEval, raw_w, tLocals, cLocals,
                   observed, missed, saved_mode, consumed, seen_new>>

\* line 211: grab_clipboard_image_and_hash
WdGrab ==
    /\ pc_w = "grab"
    /\ hash_val' = IF clipboard = NoImage THEN NoImage ELSE md5_image(clipboard)
    /\ ev' = [ev EXCEPT !.read_clipboard = TRUE,
                        !.dup = (clipboard # NoImage /\ md5_image(clipboard) = seen_new)]
    /\ pc_w' = "get"
    /\ UNCHANGED <<varsL, varsP, varsQ, settings_json, envW, last_snip_running, last_hash, is_tray_snip,
                   tray_status, do_upload, raw_w, tLocals, cLocals,
                   observed, missed, saved_mode, consumed, seen_new>>

\* lines 213-217: read the token
WdGetToken ==
    /\ pc_w = "get"
    /\ LET tok == get_settings.tray_snip_token IN
       /\ is_tray_snip' = TokenPresent(tok)
       /\ observed' = IF TokenPresent(tok)
                      THEN [observed EXCEPT ![tok] = IF @ < 2 THEN @ + 1 ELSE @]
                      ELSE observed
       /\ ev' = [ev EXCEPT !.token = tok]
       /\ pc_w' = IF ConsumesToken(TokenPresent(tok)) THEN "del_read" ELSE AfterToken
    /\ UNCHANGED <<varsL, varsP, varsQ, settings_json, envW, last_snip_running, last_hash, hash_val,
                   tray_status, do_upload, raw_w, tLocals, cLocals,
                   missed, saved_mode, consumed, seen_new>>

\* update_settings lines 182-193: read raw, delete the keys, merge the updates
WdUpdateRead(at, next, del_token, ldi) ==
    /\ pc_w = at
    /\ raw_w' = [get_settings EXCEPT
                   !.tray_snip_token = IF del_token THEN NoToken ELSE @,
                   !.last_detected_image = IF ldi # NoImage THEN ldi ELSE @]
    /\ pc_w' = next
    /\ UNCHANGED <<varsL, varsP, varsQ, settings_json, envW, last_snip_running, last_hash, wEval,
                   tLocals, cLocals, observed, missed, saved_mode, consumed>>

\* update_settings line 194: open(SETTINGS_PATH, "w") truncates the file
WdUpdateOpen(at, next) ==
    /\ pc_w = at
    /\ settings_json' = EmptySettings
    /\ pc_w' = next
    /\ UNCHANGED <<varsL, varsP, varsQ, envW, last_snip_running, last_hash, wEval, raw_w,
                   tLocals, cLocals, history>>

\* update_settings line 195: json.dump and close
WdUpdateDump(at, next) ==
    /\ pc_w = at
    /\ settings_json' = raw_w
    /\ raw_w' = EmptySettings
    /\ pc_w' = next
    /\ UNCHANGED <<varsL, varsP, varsQ, envW, last_snip_running, last_hash, wEval,
                   tLocals, cLocals, observed, missed, saved_mode, seen_new>>

\* line 220: update_settings({}, delete_keys=["tray_snip_token"])
WdDeleteRead ==
    /\ WdUpdateRead("del_read", "del_open", TRUE, NoImage)
    /\ UNCHANGED <<seen_new, ev>>

WdDeleteOpen == WdUpdateOpen("del_open", "del_dump")

WdDeleteDump ==
    /\ WdUpdateDump("del_dump", AfterToken)
    /\ ev' = [ev EXCEPT !.deleted = (raw_w.tray_snip_token = NoToken)]
    /\ consumed' = consumed \cup ({ev.token} \ {NoToken})

\* lines 222-224: a new image; update_settings({"last_detected_image": hash_val})
WdImageRead ==
    /\ WdUpdateRead("ldi_read", "ldi_open", FALSE, hash_val)
    /\ ev' = [ev EXCEPT !.new = TRUE]
    /\ seen_new' = hash_val

WdImageOpen == WdUpdateOpen("ldi_open", "ldi_dump")

WdImageDump ==
    /\ WdUpdateDump("ldi_dump", "status")
    /\ UNCHANGED <<consumed, ev>>

\* lines 225-230: read the mode and decide; int() of a value that is no
\* number raises, nothing in the loop catches it, and the thread ends
WdDecide ==
    /\ pc_w = "status"
    /\ IF get_settings.tray_status = NonNumeric
       THEN /\ pc_w' = "dead"
            /\ UNCHANGED <<tray_status, do_upload>>
       ELSE /\ tray_status' = get_tray_status
            /\ do_upload' = DoUpload(get_tray_status, is_tray_snip)
            /\ pc_w' = IF DoUpload(get_tray_status, is_tray_snip) THEN "post" ELSE "end"
    /\ UNCHANGED <<varsL, varsP, varsQ, settings_json, envW, last_snip_running, last_hash, hash_val,
                   is_tray_snip, raw_w, tLocals, cLocals, history>>

\* lines 231-265: stage the PNG and POST it, inside the loop's own iteration
WdPost(outcome) ==
    /\ pc_w = "post"
    /\ ev' = [ev EXCEPT !.posted = (outcome # "staging_raised"),
                        !.posts = IF outcome # "staging_raised" THEN @ + 1 ELSE @,
                        !.response = outcome,
                        !.in_flight = IF @ = "open" THEN "none" ELSE @]
    /\ pc_w' = IF outcome = "staging_raised" THEN "dead"
               ELSE IF UploadSucceeded(outcome) THEN "url_read" ELSE "end"
    /\ UNCHANGED <<varsL, varsP, varsQ, settings_json, envW, last_snip_running, last_hash, wEval, raw_w,
                   tLocals, cLocals, observed, missed, saved_mode, consumed, seen_new>>

\* line 253: update_settings({"last_litterbox_url": url}); the url is never
\* read back, the rewrite of the other keys is what settings.json keeps of it
WdUrlRead ==
    /\ WdUpdateRead("url_read", "url_open", FALSE, NoImage)
    /\ UNCHANGED <<seen_new, ev>>

WdUrlOpen == WdUpdateOpen("url_open", "url_dump")

WdUrlDump ==
    /\ WdUpdateDump("url_dump", "browse")
    /\ ev' = [ev EXCEPT !.url_saved = TRUE]
    /\ UNCHANGED consumed

\* lines 254-259: webbrowser.open_new_tab(lens_url)
WdBrowse ==
    /\ pc_w = "browse"
    /\ ev' = [ev EXCEPT !.opened = TRUE]
    /\ pc_w' = "end"
    /\ UNCHANGED <<varsL, varsP, varsQ, settings_json, envW, last_snip_running, last_hash, wEval, raw_w,
                   tLocals, cLocals, observed, missed, saved_mode, consumed, seen_new>>

\* line 273: last_snip_running = now_running, and the next iteration
WdEnd ==
    /\ pc_w = "end"
    /\ last_snip_running' = FALSE
    /\ hash_val' = NoImage
    /\ is_tray_snip' = FALSE
    /\ tray_status' = 0
    /\ do_upload' = FALSE
    /\ ev' = [NoEv EXCEPT !.in_flight = ev.in_flight]
    /\ pc_w' = "poll"
    /\ UNCHANGED <<varsL, varsP, varsQ, settings_json, envW, last_hash, raw_w, tLocals, cLocals,
                   observed, missed, saved_mode, consumed, seen_new>>

clipboard_monitor_loop ==
    \/ WdPoll \/ WdGrab \/ WdGetToken
    \/ WdDeleteRead \/ WdDeleteOpen \/ WdDeleteDump
    \/ WdImageRead \/ WdImageOpen \/ WdImageDump
    \/ WdDecide
    \/ \E outcome \in WdOutcomes : WdPost(outcome)
    \/ WdUrlRead \/ WdUrlOpen \/ WdUrlDump \/ WdBrowse
    \/ WdEnd

(***************************************************************************)
(* sniplens.TrayApp.icon_clicked: a left click writes a fresh token        *)
(***************************************************************************)
\* lines 219-220 and update_settings 130-135: uuid4, read raw, merge
TrayClickRead ==
    /\ pc_t = "idle"
    /\ events < MaxEvents
    /\ events' = events + 1
    /\ raw_t' = [get_settings EXCEPT !.tray_snip_token = next_token]
    /\ pc_t' = "open"
    /\ UNCHANGED <<varsL, varsP, varsQ, settings_json, clipboard, snip_running, wLocals, next_token,
                   cLocals, history>>

\* update_settings line 136
TrayClickOpen ==
    /\ pc_t = "open"
    /\ settings_json' = EmptySettings
    /\ pc_t' = "dump"
    /\ UNCHANGED <<varsL, varsP, varsQ, envW, wLocals, raw_t, next_token, cLocals, history>>

\* update_settings line 137
TrayClickDump ==
    /\ pc_t = "dump"
    /\ settings_json' = raw_t
    /\ next_token' = next_token + 1
    /\ raw_t' = EmptySettings
    /\ pc_t' = "idle"
    /\ UNCHANGED <<varsL, varsP, varsQ, envW, wLocals, cLocals, history>>

icon_clicked == TrayClickRead \/ TrayClickOpen \/ TrayClickDump

(***************************************************************************)
(* config_window.on_status_toggle -> save_settings                         *)
(***************************************************************************)
\* lines 85-87 and 51-59: read raw and set tray_status to the chosen index
SaveRead(idx) ==
    /\ pc_c = "idle"
    /\ events < MaxEvents
    /\ events' = events + 1
    /\ raw_c' = [get_settings EXCEPT !.tray_status = idx]
    /\ pc_c' = "open"
    /\ UNCHANGED <<varsL, varsP, varsQ, settings_json, clipboard, snip_running, wLocals, tLocals, history>>

\* line 60
SaveOpen ==
    /\ pc_c = "open"
    /\ settings_json' = EmptySettings
    /\ pc_c' = "dump"
    /\ UNCHANGED <<varsL, varsP, varsQ, envW, wLocals, tLocals, raw_c, history>>

\* line 61
SaveDump ==
    /\ pc_c = "dump"
    /\ settings_json' = raw_c
    /\ saved_mode' = raw_c.tray_status
    /\ raw_c' = EmptySettings
    /\ pc_c' = "idle"
    /\ UNCHANGED <<varsL, varsP, varsQ, envW, wLocals, tLocals, observed, missed, consumed,
                   seen_new, ev>>

save_settings == (\E idx \in Modes : SaveRead(idx)) \/ SaveOpen \/ SaveDump

NextW ==
    \/ SnipOpens
    \/ SnipCloses
    \/ \E c \in {NoImage} \cup Images : SetClipboard(c)
    \/ clipboard_monitor_loop
    \/ icon_clicked
    \/ save_settings

(***************************************************************************)
(* Part L: snipping_lens.py, class SnippingLens.                           *)
(* Two watcher threads, one delivery thread per accepted image.            *)
(***************************************************************************)
SNIP_PROCESS_TIMEOUT_SECONDS == 5

\* time.time() when the program starts: the epoch is far behind, so a
\* timestamp of 0.0 is older than any timeout
StartTime == SNIP_PROCESS_TIMEOUT_SECONDS + 1

\* the clock is read a second later, or a whole timeout later
TickSteps == {1, SNIP_PROCESS_TIMEOUT_SECONDS}

\* None
NoHash == 0

\* an image whose tobytes() raises, so that get_image_hash returns None
Unhashable == NumImages + 1

\* a fingerprint that would follow the object: another one at every call
HashOfObjectIdentity(pixels) == 200 + Len(fp_log)

\* get_image_hash, lines 198-209: hash() of the pixel bytes, for a PIL image
\* and for an image file alike; None when reading the pixels raises
get_image_hash(pixels) ==
    IF pixels = Unhashable THEN NoHash ELSE 200 + hash_seed * (NumImages + 1) + pixels

\* what ImageGrab.grabclipboard() returns: None, a PIL image, a list of file
\* names whose first verifiable image has these pixels, or a list of file
\* names with no image among them
ClipboardContents ==
    {[kind |-> "none", pixels |-> 0], [kind |-> "nofiles", pixels |-> 0]}
    \cup [kind : {"pil"}, pixels : Images \cup {Unhashable}]
    \cup [kind : {"files"}, pixels : Images]

\* what the upload inside get_google_lens_url, lines 211-240, can meet:
\* "ok": status 200 and a body that starts with the host's file prefix;
\* "bad_body": status 200 and another body;
\* "status_2xx": another success status (201, 204) with a hosted URL as body;
\* "http_error": a status of 400 or more; "timeout": requests Timeout;
\* "raised": any other exception (network error, unreadable file)
UploadOutcomes == {"ok", "bad_body", "status_2xx", "http_error", "timeout", "raised"}

\* line 221: response.raise_for_status()
RaisesForStatus(o) == o = "http_error"

\* line 223: response.status_code == 200
Is200(o) == o \in {"ok", "bad_body"}

\* line 223: catbox_link.startswith('https://files.catbox.moe/')
HasHostedPrefix(o) == o \in {"ok", "status_2xx"}

UrlOnStatusAlone(o) == Is200(o)

\* get_google_lens_url returns a URL (TRUE) or None (FALSE)
get_google_lens_url(o) ==
    /\ o \notin {"timeout", "raised"}
    /\ ~RaisesForStatus(o)
    /\ Is200(o) /\ HasHostedPrefix(o)

\* None, as a path
NoPath == 0

\* the image files a Windows clipboard file list can name: one per content
UserFiles == Images

\* names tempfile.NamedTemporaryFile can give the xclip captures
XclipFiles == (NumImages + 1)..(NumImages + MaxDeliveries + 2)

ProcessCorrelatedStrictBelow(elapsed) ==
    0 < elapsed /\ elapsed < SNIP_PROCESS_TIMEOUT_SECONDS

\* line 427: 0 < time_since_process_seen <= SNIP_PROCESS_TIMEOUT_SECONDS
ProcessCorrelated(elapsed) ==
    0 < elapsed /\ elapsed <= SNIP_PROCESS_TIMEOUT_SECONDS

\* lines 417-419, for an iteration that found an image (image_to_process is
\* not None); the second disjunct is the code's, and is implied by the first
is_new_content(cur, last) == cur # last \/ (cur = NoHash /\ last # NoHash)

HashKeptOnReject(accepted, cur, last) == IF accepted THEN cur ELSE last

\* lines 443 and 446: last_clipboard_hash after the evaluation
HashAfterEvaluation(accepted, cur, last) == cur

UnlinksOnSuccessOnly(d) == d.staged /\ d.url

\* lines 525-527: the finally block unlinks the PIL temp file it staged
UnlinksTemp(d) == d.staged

\* elapsed times beyond the timeout are recorded as one value
Late == SNIP_PROCESS_TIMEOUT_SECONDS + 1

Capped(elapsed) == IF elapsed > SNIP_PROCESS_TIMEOUT_SECONDS THEN Late ELSE elapsed

\* cleared: the fingerprint a no-image poll has cleared since the last evaluation
NoMc == [evaluated |-> FALSE, elapsed |-> 0, never_seen |-> FALSE, accepted |-> FALSE,
         skipped |-> FALSE, skipped_in_window |-> FALSE, cleared |-> NoHash]

HashKeptOnEmptyPoll(last) == last

\* lines 383-384 and 414-415: last_clipboard_hash after a poll without an image
HashAfterEmptyPoll(last) == NoHash

HashKeptOnError(last) == last

\* lines 455 and 468-469: both handlers reset last_clipboard_hash
HashAfterError(last) == NoHash

LoopsOnWhilePaused == is_running \/ is_paused

\* lines 244 and 355: while self.is_running
while_is_running == is_running

\* a delivery that has not returned
Running(d) == d.pc # "done"

\* NamedTemporaryFile never returns the name of a file that exists; the model
\* also keeps it apart from the names running deliveries still hold
FreshXclipFile ==
    CHOOSE f \in XclipFiles :
        /\ f \notin path_files
        /\ \A i \in 1..Len(deliveries) : Running(deliveries[i]) => deliveries[i].path # f
        /\ \A g \in XclipFiles :
             (g \notin path_files
              /\ \A i \in 1..Len(deliveries) :
                    Running(deliveries[i]) => deliveries[i].path # g) => f <= g

\* lines 433-442: the second argument of process_screenshot
IsTempXclipFile(type, path, temp) == type = "file_path" /\ path = temp

UnlinksEverySourcePath(d) == d.src = "file_path" /\ d.final_is_source

\* lines 533-535: the finally block unlinks the source only when it was handed
\* over as the xclip temp file and became final_image_path
UnlinksSource(d) == d.is_temp_xclip_file /\ d.final_is_source

UploadsAfterFailedStaging(ok) == "upload"

\* lines 500-509: a failed save, or a source that is no file, returns
AfterStaging(ok) == IF ok THEN "upload" ELSE "finally"

RetryFailedUpload(got_url) == IF got_url THEN "browse" ELSE "upload"

\* lines 514-521: open the browser for a URL, else log and go to the cleanup
AfterUpload(got_url) == IF got_url THEN "browse" ELSE "finally"

Platforms == {"Windows", "Linux"}

InitLens ==
    /\ is_running = TRUE
    /\ is_paused = FALSE
    /\ last_clipboard_hash = NoHash
    /\ last_snip_process_seen_time = 0
    /\ now = StartTime
    /\ tool_running = FALSE
    /\ os_clipboard = [kind |-> "none", pixels |-> 0]
    /\ pc_mc = "top"
    /\ current_hash = NoHash
    /\ image_source_type = "none"
    /\ image_to_process = NoPath
    /\ temp_linux_image_path = NoPath
    /\ path_files = UserFiles
    /\ pc_mp = "scan"
    /\ deliveries = <<>>
    /\ temp_files = {}
    /\ lens_events = 0
    /\ process_state_lock = "free"
    /\ time_since_process_seen = 0
    /\ last_evaluated = NoHash
    /\ mp_aborted = FALSE
    /\ mc = NoMc

\* the Windows program
InitL == OS_PLATFORM = "Windows" /\ InitLens

flags == <<OS_PLATFORM, is_running, is_paused>>
stamps == <<last_clipboard_hash, last_snip_process_seen_time>>
lensEnv == <<now, tool_running, os_clipboard, lens_events>>
mcLocals == <<pc_mc, current_hash, image_source_type, image_to_process>>
xclip == <<temp_linux_image_path, path_files>>
lensHist == <<last_evaluated, mc>>
threads == <<deliveries, temp_files>>
mpLocals == <<pc_mp, mp_aborted>>
lockState == <<process_state_lock, time_since_process_seen>>

\* the clock advances by d seconds
Tick(d) ==
    /\ lens_events < MaxEvents
    /\ now + d <= StartTime + MaxTicks
    /\ now' = now + d
    /\ lens_events' = lens_events + 1
    /\ UNCHANGED <<varsW, varsP, varsQ, lockState, flags, stamps, tool_running, os_clipboard, mcLocals,
                   xclip, mpLocals, threads, lensHist>>

\* a capture tool starts or exits
ToolStartsOrStops ==
    /\ lens_events < MaxEvents
    /\ tool_running' = ~tool_running
    /\ lens_events' = lens_events + 1
    /\ UNCHANGED <<varsW, varsP, varsQ, lockState, flags, stamps, now, os_clipboard, mcLocals, xclip,
                   mpLocals, threads, lensHist>>

\* some program puts something else on the clipboard
SetOsClipboard(c) ==
    /\ lens_events < MaxEvents
    /\ c # os_clipboard
    /\ os_clipboard' = c
    /\ lens_events' = lens_events + 1
    /\ UNCHANGED <<varsW, varsP, varsQ, lockState, flags, stamps, now, tool_running, mcLocals, xclip,
                   mpLocals, threads, lensHist>>

\* _toggle_pause_resume, lines 119-122 (the tray menu item)
toggle_pause_resume ==
    /\ lens_events < MaxEvents
    /\ is_paused' = ~is_paused
    /\ lens_events' = lens_events + 1
    /\ UNCHANGED <<varsW, varsP, varsQ, lockState, OS_PLATFORM, is_running, stamps, now, tool_running,
                   os_clipboard, mcLocals, xclip, mpLocals, threads, lensHist>>

\* exit_app, line 187: self.is_running = False (the os._exit that follows
\* half a second later ends the process and with it the run)
exit_app ==
    /\ is_running
    /\ is_running' = FALSE
    /\ UNCHANGED <<varsW, varsP, varsQ, lockState, OS_PLATFORM, is_paused, stamps, lensEnv, mcLocals,
                   xclip, mpLocals, threads, lensHist>>

(***************************************************************************)
(* SnippingLens.monitor_processes                                          *)
(***************************************************************************)
\* lines 244-261: leave the loop when is_running is cleared, skip while
\* paused, else look for a capture tool in the process table
MpScan ==
    /\ pc_mp = "scan"
    /\ pc_mp' = IF ~while_is_running THEN "stopped"
               ELSE IF ~is_paused /\ tool_running THEN "stamp"
               ELSE "scan"
    /\ mp_aborted' = FALSE
    /\ UNCHANGED <<varsW, varsP, varsQ, lockState, flags, stamps, lensEnv, mcLocals, xclip, threads,
                   lensHist>>

\* lines 250-258: process_iter raises (NoSuchProcess, AccessDenied,
\* ZombieProcess) before the loop has come to the capture tool's entry; the
\* try around the whole for loop ends the enumeration
MpScanInterrupted ==
    /\ pc_mp = "scan"
    /\ is_running /\ ~is_paused
    /\ tool_running
    /\ mp_aborted' = TRUE
    /\ UNCHANGED <<varsW, varsP, varsQ, lockState, flags, stamps, lensEnv, mcLocals, xclip, pc_mp, threads,
                   lensHist>>

\* lines 262-263: with process_state_lock: last_snip_process_seen_time = time.time()
MpStamp ==
    /\ pc_mp = "stamp"
    /\ last_snip_process_seen_time' = now
    /\ pc_mp' = "scan"
    /\ UNCHANGED <<varsW, varsP, varsQ, lockState, flags, last_clipboard_hash, lensEnv, mcLocals, xclip,
                   mp_aborted, threads, lensHist>>

monitor_processes == MpScan \/ MpScanInterrupted \/ MpStamp

(***************************************************************************)
(* SnippingLens.monitor_clipboard                                          *)
(***************************************************************************)
\* lines 355-362 and 475-479: the top of the loop. The loop is left when
\* is_running is cleared (the xclip temp file is removed on the way out); a
\* paused iteration removes the xclip temp file, sleeps and continues
McTop ==
    /\ pc_mc = "top"
    /\ IF ~while_is_running
       THEN /\ pc_mc' = "stopped"
            /\ path_files' = path_files \ {temp_linux_image_path}
            /\ UNCHANGED temp_linux_image_path
       ELSE IF is_paused
       THEN /\ pc_mc' = "top"
            /\ path_files' = path_files \ {temp_linux_image_path}
            /\ temp_linux_image_path' =
                 IF temp_linux_image_path \in path_files THEN NoPath
                 ELSE temp_linux_image_path
       ELSE /\ pc_mc' = "grab"
            /\ UNCHANGED xclip
    /\ UNCHANGED <<varsW, varsP, varsQ, lockState, flags, stamps, lensEnv, current_hash, image_source_type,
                   image_to_process, mpLocals, threads, lensHist>>

\* lines 454-473: ImageGrab.grabclipboard raised; the fingerprint is reset
McGrabFails ==
    /\ pc_mc = "grab"
    /\ OS_PLATFORM = "Windows"
    /\ last_clipboard_hash' = HashAfterError(last_clipboard_hash)
    /\ last_evaluated' = NoHash
    /\ pc_mc' = "top"
    /\ UNCHANGED <<varsW, varsP, varsQ, lockState, flags, last_snip_process_seen_time, lensEnv,
                   current_hash, image_source_type, image_to_process, xclip, mpLocals,
                   threads, mc>>

\* the clipboard holds an image this platform's query returns: any image or
\* file list with an image on Windows; on Linux an image xclip can write and
\* PIL can verify
HoldsImage ==
    IF OS_PLATFORM = "Windows"
    THEN os_clipboard.kind \in {"pil", "files"}
    ELSE os_clipboard.kind = "pil" /\ os_clipboard.pixels \in Images

\* lines 371-375: on Linux the previous xclip temp file is removed before the
\* clipboard is queried again
AfterOldTempRemoved ==
    IF OS_PLATFORM = "Linux" THEN path_files \ {temp_linux_image_path} ELSE path_files

\* lines 382-386 and 414-415: no image on the clipboard; the fingerprint is reset
McGrabNoImage ==
    /\ pc_mc = "grab"
    /\ ~HoldsImage
    /\ last_clipboard_hash' = HashAfterEmptyPoll(last_clipboard_hash)
    /\ last_evaluated' = NoHash
    /\ mc' = [mc EXCEPT !.cleared = IF last_clipboard_hash # NoHash
                                    THEN last_clipboard_hash ELSE @]
    /\ path_files' = AfterOldTempRemoved
    /\ temp_linux_image_path' = NoPath
    /\ pc_mc' = "top"
    /\ UNCHANGED <<varsW, varsP, varsQ, lockState, flags, last_snip_process_seen_time, lensEnv,
                   current_hash, image_source_type, image_to_process, mpLocals,
                   threads>>

\* lines 368-419: an image; fingerprint it and compare with the last one
McGrabImage ==
    /\ pc_mc = "grab"
    /\ HoldsImage
    /\ LET cur == get_image_hash(os_clipboard.pixels)
           path == IF OS_PLATFORM = "Linux" THEN FreshXclipFile
                   ELSE IF os_clipboard.kind = "files" THEN os_clipboard.pixels
                   ELSE NoPath
       IN
       /\ path_files' = IF OS_PLATFORM = "Linux"
                        THEN AfterOldTempRemoved \cup {path} ELSE path_files
       /\ temp_linux_image_path' = IF OS_PLATFORM = "Linux" THEN path ELSE NoPath
       /\ IF is_new_content(cur, last_clipboard_hash)
          THEN /\ current_hash' = cur
               /\ image_source_type' = IF path = NoPath THEN "pil" ELSE "file_path"
               /\ image_to_process' = path
               /\ pc_mc' = "check"
               /\ UNCHANGED mc
          ELSE /\ pc_mc' = "top"
               /\ mc' = [mc EXCEPT !.skipped = TRUE,
                                   !.skipped_in_window =
                                       ProcessCorrelated(now - last_snip_process_seen_time)]
               /\ UNCHANGED <<current_hash, image_source_type, image_to_process>>
    /\ UNCHANGED <<varsW, varsP, varsQ, lockState, flags, stamps, lensEnv, mpLocals, threads, last_evaluated>>

DeliversInWatcher == "deliver"

\* lines 437-442 and 474-475: process_thread.start() returns as soon as the
\* thread is started; the watcher goes on to its sleep and the next poll
AfterThreadStart == "top"

\* lines 427-452: the acceptance decision for the elapsed time read at line
\* 425, and its effect, with at most cap deliveries in a run
Evaluate(cap, at, elapsed) ==
    /\ pc_mc = at
    /\ LET should_process == ProcessCorrelated(elapsed)
           is_temp == IsTempXclipFile(image_source_type, image_to_process,
                                      temp_linux_image_path)
       IN
       /\ should_process => Len(deliveries) < cap
       /\ deliveries' =
            IF should_process
            THEN Append(deliveries,
                        [pc |-> "stage", src |-> image_source_type,
                         path |-> image_to_process, is_temp_xclip_file |-> is_temp,
                         final_is_source |-> FALSE, staged |-> FALSE, url |-> FALSE,
                         outcome |-> "none", posts |-> 0, browser |-> "none"])
            ELSE deliveries
       /\ last_clipboard_hash' =
            HashAfterEvaluation(should_process, current_hash, last_clipboard_hash)
       \* lines 447-452: an ignored xclip temp file is removed at once
       /\ path_files' = IF ~should_process /\ is_temp
                        THEN path_files \ {temp_linux_image_path} ELSE path_files
       /\ temp_linux_image_path' = IF ~should_process /\ is_temp
                                   THEN NoPath ELSE temp_linux_image_path
       /\ last_evaluated' = current_hash
       /\ mc' = [evaluated |-> TRUE, elapsed |-> Capped(elapsed),
                 never_seen |-> (last_snip_process_seen_time = 0),
                 accepted |-> Len(deliveries') > Len(deliveries),
                 skipped |-> FALSE, skipped_in_window |-> FALSE, cleared |-> NoHash]
    /\ current_hash' = NoHash
    /\ image_source_type' = "none"
    /\ image_to_process' = NoPath
    /\ pc_mc' = IF ProcessCorrelated(elapsed) THEN AfterThreadStart ELSE "top"
    /\ UNCHANGED <<varsW, varsP, varsQ, process_state_lock, flags, last_snip_process_seen_time,
                   lensEnv, mpLocals, temp_files>>

\* the decision with at most MaxDeliveries deliveries in a run
Decide(at, elapsed) == Evaluate(MaxDeliveries, at, elapsed)

\* lines 437-442: the image is accepted and Thread.start() raises (no thread
\* can be started); control goes to the handler at line 457
McStartRaises ==
    /\ pc_mc = "check"
    /\ ProcessCorrelated(now - last_snip_process_seen_time)
    /\ pc_mc' = "except"
    /\ UNCHANGED <<varsW, varsP, varsQ, lockState, flags, stamps, lensEnv, current_hash, image_source_type,
                   image_to_process, xclip, mpLocals, threads, lensHist>>

\* lines 457-475: the handler resets the fingerprint, removes the xclip temp
\* file, and the loop goes on after the sleep
McExcept ==
    /\ pc_mc = "except"
    /\ last_clipboard_hash' = HashAfterError(last_clipboard_hash)
    /\ last_evaluated' = NoHash
    /\ path_files' = path_files \ {temp_linux_image_path}
    /\ temp_linux_image_path' =
         IF temp_linux_image_path \in path_files THEN NoPath ELSE temp_linux_image_path
    /\ current_hash' = NoHash
    /\ image_source_type' = "none"
    /\ image_to_process' = NoPath
    /\ pc_mc' = "top"
    /\ UNCHANGED <<varsW, varsP, varsQ, lockState, flags, last_snip_process_seen_time, lensEnv, mpLocals,
                   threads, mc>>

\* lines 421-452 with the read of lines 424-425 taken in the same step
McEvaluate ==
    /\ Decide("check", now - last_snip_process_seen_time)
    /\ UNCHANGED time_since_process_seen

monitor_clipboard == McTop \/ McGrabFails \/ McGrabNoImage \/ McGrabImage \/ McEvaluate

(***************************************************************************)
(* SnippingLens.process_screenshot, one thread per accepted image          *)
(***************************************************************************)
\* lines 489-512: stage a PIL image in a fresh temporary file (saved: the
\* save succeeded), or take the path as it is when it names a file
PsStage(i, saved) ==
    /\ deliveries[i].pc = "stage"
    /\ LET d == deliveries[i]
           ok == IF d.src = "pil" THEN saved ELSE d.path \in path_files
       IN
       /\ d.src = "file_path" => saved
       /\ temp_files' = IF d.src = "pil" THEN temp_files \cup {i} ELSE temp_files
       /\ deliveries' = [deliveries EXCEPT
                           ![i].staged = (d.src = "pil" /\ saved),
                           ![i].final_is_source = (d.src = "file_path" /\ ok),
                           ![i].pc = AfterStaging(ok)]
    /\ UNCHANGED <<varsW, varsP, varsQ, lockState, flags, stamps, lensEnv, mcLocals, xclip, mpLocals,
                   lensHist>>

\* line 514: search_url = self.get_google_lens_url(final_image_path); a file
\* that is gone by now cannot be opened, which is one of the exceptions
PsUpload(i, outcome) ==
    /\ deliveries[i].pc = "upload"
    /\ LET d == deliveries[i]
           path_gone == d.src = "file_path" /\ d.path \notin path_files
           pil_gone == d.src = "pil" /\ i \notin temp_files
       IN
       /\ (path_gone \/ pil_gone) => outcome = "raised"
       /\ deliveries' = [deliveries EXCEPT
                           ![i].outcome = outcome,
                           ![i].posts = @ + 1,
                           ![i].url = get_google_lens_url(outcome),
                           ![i].pc = AfterUpload(get_google_lens_url(outcome))]
    /\ UNCHANGED <<varsW, varsP, varsQ, lockState, flags, stamps, lensEnv, mcLocals, xclip, mpLocals,
                   temp_files, lensHist>>

\* lines 515-522: webbrowser.open_new_tab, which may raise
PsBrowse(i, raises) ==
    /\ deliveries[i].pc = "browse"
    /\ deliveries' = [deliveries EXCEPT
                        ![i].browser = IF raises THEN "raised" ELSE "opened",
                        ![i].pc = "finally"]
    /\ UNCHANGED <<varsW, varsP, varsQ, lockState, flags, stamps, lensEnv, mcLocals, xclip, mpLocals,
                   temp_files, lensHist>>

\* lines 523-538: the finally block
PsFinally(i) ==
    /\ deliveries[i].pc = "finally"
    /\ temp_files' = IF UnlinksTemp(deliveries[i]) THEN temp_files \ {i} ELSE temp_files
    /\ path_files' = IF UnlinksSource(deliveries[i])
                     THEN path_files \ {deliveries[i].path} ELSE path_files
    /\ deliveries' = [deliveries EXCEPT ![i].pc = "done"]
    /\ UNCHANGED <<varsW, varsP, varsQ, lockState, flags, stamps, lensEnv, mcLocals, temp_linux_image_path,
                   mpLocals, lensHist>>

process_screenshot(i) ==
    \/ \E saved \in BOOLEAN : PsStage(i, saved)
    \/ \E outcome \in UploadOutcomes : PsUpload(i, outcome)
    \/ \E raises \in BOOLEAN : PsBrowse(i, raises)
    \/ PsFinally(i)

NextL ==
    \/ \E d \in TickSteps : Tick(d)
    \/ ToolStartsOrStops
    \/ \E c \in ClipboardContents : SetOsClipboard(c)
    \/ toggle_pause_resume
    \/ MpScan
    \/ MpStamp
    \/ McTop
    \/ McGrabFails
    \/ McGrabNoImage
    \/ McGrabImage
    \/ McEvaluate
    \/ \E i \in 1..MaxDeliveries : i <= Len(deliveries) /\ process_screenshot(i)

\* a run of the programs: one salt, no function checked on its own
InitP ==
    /\ hash_seed = 0
    /\ fp_log = <<>>
    /\ hosted_url = <<>>
    /\ lens_url = <<>>

\* tray_watchdog.py after its start, lines 319-330: no exit signal file, the
\* tray launched, the threads at the top of their loops
InitShutdown ==
    /\ exit_watchdog = FALSE
    /\ tray_process = TRUE
    /\ missing_counter = 0
    /\ pc_tm = "test"
    /\ pc_cl = "loop"
    /\ pc_main = "wait"
    /\ q_events = 0
    /\ tm_checks = <<>>
    /\ main_removed = FALSE
    /\ created_again = FALSE

\* the processes that may be started in a run
MaxInstances == 3

Instances == 1..MaxInstances

\* no lock file
NoLockFile == 0

\* a lock file that open("w") has created or truncated and that holds no pid yet
EmptyLockFile == 0 - 1

\* no process of the program started yet, no lock file
InitLock ==
    /\ lockfile = NoLockFile
    /\ pc_lock = [p \in Instances |-> "idle"]

\* tray_watchdog.py, lines 72-89 and 299-305: the start has stored
\* tray_ui_enabled = True, the handler has read it and the tray runs
InitHandler ==
    /\ ui_enabled = TRUE
    /\ file_whole = TRUE
    /\ wr_value = TRUE
    /\ pc_wr = "idle"
    /\ last_state = TRUE
    /\ pending = 0
    /\ tray_up = TRUE
    /\ h_events = 0
    /\ synced_value = TRUE
    /\ h_action = "none"

InitQ == InitShutdown /\ InitLock /\ InitHandler

Init == InitW /\ InitL /\ InitP /\ InitQ

SpecW == Init /\ [][NextW]_vars

\* snipping_lens.py never opens settings.json: its runs start from one
\* content of that file
SettingsUntouched ==
    settings_json = [tray_status |-> StatusAlwaysOn, tray_snip_token |-> NoToken,
                     last_detected_image |-> NoImage]

InitLensRun == Init /\ SettingsUntouched

SpecL == InitLensRun /\ [][NextL]_vars

(***************************************************************************)
(* The search URL, built the same way in snipping_lens.py (line 225) and   *)
(* in tray_watchdog.py (lines 255-257).  A URL is a sequence of characters.*)
(***************************************************************************)
\* the characters RFC 3986 reserves that a hosted file URL can hold
Reserved == {":", "/", "?", "&", "#"}
Chars == {"a"} \cup Reserved

\* what the file host can answer
HostedUrls == UNION {[1..n -> Chars] : n \in 1..MaxUrlLen}

\* "https://lens.google.com/uploadbyurl?url="
SearchBase == <<"https://lens.google.com/uploadbyurl", "?url=">>

\* urllib.parse.quote(u, safe=""), which neither program calls
PercentEncode(u) ==
    [i \in 1..Len(u) |->
        CASE u[i] = ":" -> "%3A"
          [] u[i] = "/" -> "%2F"
          [] u[i] = "?" -> "%3F"
          [] u[i] = "&" -> "%26"
          [] u[i] = "#" -> "%23"
          [] OTHER -> u[i]]

\* f"https://lens.google.com/uploadbyurl?url={catbox_link}"
LensUrl(u) == SearchBase \o u

BuildLensUrl ==
    /\ lens_url = <<>>
    /\ lens_url' = LensUrl(hosted_url)
    /\ UNCHANGED <<varsW, varsL, varsQ, hash_seed, fp_log, hosted_url>>

InitU ==
    /\ InitW /\ SettingsUntouched /\ InitL /\ InitQ
    /\ hash_seed = 0
    /\ fp_log = <<>>
    /\ hosted_url \in HostedUrls
    /\ lens_url = <<>>

NextU == BuildLensUrl

SpecU == InitU /\ [][NextU]_vars

(***************************************************************************)
(* The fingerprint functions on their own: any salt, any images, in any    *)
(* order.                                                                  *)
(***************************************************************************)
\* PYTHONHASHSEED: hash() of bytes is salted once per process
Seeds == {0, 1}

Fingerprint(fn, pixels) ==
    IF fn = "md5_image" THEN md5_image(pixels) ELSE get_image_hash(pixels)

ComputeFingerprint(fn, pixels) ==
    /\ Len(fp_log) < MaxCalls
    /\ fp_log' = Append(fp_log, [fn |-> fn, pixels |-> pixels,
                                 fp |-> Fingerprint(fn, pixels)])
    /\ UNCHANGED <<varsW, varsL, varsQ, hash_seed, hosted_url, lens_url>>

InitF ==
    /\ InitW /\ SettingsUntouched /\ InitL /\ InitQ
    /\ hash_seed \in Seeds
    /\ fp_log = <<>>
    /\ hosted_url = <<>>
    /\ lens_url = <<>>

NextF ==
    \/ \E pixels \in Images \cup {Unhashable} :
            ComputeFingerprint("get_image_hash", pixels)
    \/ \E pixels \in Images : ComputeFingerprint("md5_image", pixels)

SpecF == InitF /\ [][NextF]_vars

\* the process watcher on its own, with the enumeration errors that change
\* nothing the other threads can see
NextP ==
    \/ \E d \in TickSteps : Tick(d)
    \/ ToolStartsOrStops
    \/ toggle_pause_resume
    \/ MpScan
    \/ MpScanInterrupted
    \/ MpStamp

SpecP == InitLensRun /\ [][NextP]_vars

(***************************************************************************)
(* The two watchers with process_state_lock taken and released in steps of  *)
(* their own, and a system clock that can be set back.                      *)
(***************************************************************************)
NotAcquired(thread) == "free"

\* lines 262 and 424: with self.process_state_lock
Acquired(thread) == thread

SleepsWithLockHeld == "scan"

\* line 263 is the last line of the with block of line 262
AfterStampWritten == "unlock"

\* time.time() is the wall clock: it returns a lower value than before when
\* the system clock has been set back between two calls
ClockSetBack ==
    /\ lens_events < MaxEvents
    /\ now > 1
    /\ now' = now - 1
    /\ lens_events' = lens_events + 1
    /\ UNCHANGED <<varsW, varsP, varsQ, lockState, flags, stamps, tool_running, os_clipboard,
                   mcLocals, xclip, mpLocals, threads, lensHist>>

\* line 262: monitor_processes enters the with block
MpLock ==
    /\ pc_mp = "stamp"
    /\ process_state_lock = "free"
    /\ process_state_lock' = Acquired("monitor_processes")
    /\ pc_mp' = "locked"
    /\ UNCHANGED <<varsW, varsP, varsQ, time_since_process_seen, flags, stamps, lensEnv, mcLocals,
                   xclip, mp_aborted, threads, lensHist>>

\* line 263: self.last_snip_process_seen_time = time.time()
MpWriteStamp ==
    /\ pc_mp = "locked"
    /\ last_snip_process_seen_time' = now
    /\ pc_mp' = AfterStampWritten
    /\ UNCHANGED <<varsW, varsP, varsQ, lockState, flags, last_clipboard_hash, lensEnv, mcLocals,
                   xclip, mp_aborted, threads, lensHist>>

\* the with block of line 262 is left; line 265 sleeps after it
MpUnlock ==
    /\ pc_mp = "unlock"
    /\ process_state_lock' = "free"
    /\ pc_mp' = "scan"
    /\ UNCHANGED <<varsW, varsP, varsQ, time_since_process_seen, flags, stamps, lensEnv, mcLocals,
                   xclip, mp_aborted, threads, lensHist>>

\* line 424: monitor_clipboard enters the with block
McLock ==
    /\ pc_mc = "check"
    /\ process_state_lock = "free"
    /\ process_state_lock' = Acquired("monitor_clipboard")
    /\ pc_mc' = "locked"
    /\ UNCHANGED <<varsW, varsP, varsQ, time_since_process_seen, flags, stamps, lensEnv,
                   current_hash, image_source_type, image_to_process, xclip, mpLocals,
                   threads, lensHist>>

\* line 425: time_since_process_seen = time.time() - self.last_snip_process_seen_time
McReadStamp ==
    /\ pc_mc = "locked"
    /\ time_since_process_seen' = now - last_snip_process_seen_time
    /\ pc_mc' = "unlock"
    /\ UNCHANGED <<varsW, varsP, varsQ, process_state_lock, flags, stamps, lensEnv,
                   current_hash, image_source_type, image_to_process, xclip, mpLocals,
                   threads, lensHist>>

\* the with block of line 424 is left
McUnlock ==
    /\ pc_mc = "unlock"
    /\ process_state_lock' = "free"
    /\ pc_mc' = "decide"
    /\ UNCHANGED <<varsW, varsP, varsQ, time_since_process_seen, flags, stamps, lensEnv,
                   current_hash, image_source_type, image_to_process, xclip, mpLocals,
                   threads, lensHist>>

\* lines 427-452, outside the with block; the local is not used after them
McDecide ==
    /\ Decide("decide", time_since_process_seen)
    /\ time_since_process_seen' = 0

NextK ==
    \/ \E d \in TickSteps : Tick(d)
    \/ ClockSetBack
    \/ ToolStartsOrStops
    \/ \E c \in ClipboardContents : SetOsClipboard(c)
    \/ toggle_pause_resume
    \/ MpScan
    \/ MpLock
    \/ MpWriteStamp
    \/ MpUnlock
    \/ McTop
    \/ McGrabFails
    \/ McGrabNoImage
    \/ McGrabImage
    \/ McLock
    \/ McReadStamp
    \/ McUnlock
    \/ McDecide
    \/ \E i \in 1..MaxDeliveries : i <= Len(deliveries) /\ process_screenshot(i)

SpecK == InitLensRun /\ [][NextK]_vars

\* snipping_lens.py on either platform
InitX ==
    InitW /\ SettingsUntouched /\ OS_PLATFORM \in Platforms /\ InitLens /\ InitP /\ InitQ

\* the two watch loops and the exit request, on either platform, with the
\* clock held: every image is then rejected and no delivery thread exists.
\* Each loop is a thread of its own that the scheduler keeps running.
NextT ==
    \/ ToolStartsOrStops
    \/ \E c \in ClipboardContents : SetOsClipboard(c)
    \/ toggle_pause_resume
    \/ exit_app
    \/ MpScan
    \/ MpStamp
    \/ McTop
    \/ McGrabFails
    \/ McGrabNoImage
    \/ McGrabImage
    \/ McEvaluate

SpecT ==
    /\ InitX /\ [][NextT]_vars
    /\ WF_vars(monitor_clipboard)
    /\ WF_vars(MpScan \/ MpStamp)

\* with the accepted image whose thread cannot be started
NextX == NextL \/ McStartRaises \/ McExcept

SpecX == InitX /\ [][NextX]_vars

(***************************************************************************)
(* Properties of part W                                                    *)
(***************************************************************************)
\* nobody is between open(.., "w") and the end of json.dump
NoWriteInProgress ==
    /\ pc_t # "dump"
    /\ pc_c # "dump"
    /\ pc_w \notin {"del_dump", "ldi_dump", "url_dump"}

\* C1: a token made by one tray click is seen as present by at most one
\* snip-close evaluation, and a token whose deletion an evaluation has
\* written is never in settings.json again.
C1_TokenConsumedAtMostOnce ==
    \A t \in Tokens :
        /\ observed[t] <= 1
        /\ t \in consumed => settings_json.tray_snip_token # t

\* C2: the token of the latest tray click, once written, stays in
\* settings.json until an evaluation has seen it as present or a later click
\* replaces it (looked at whenever no write of the file is in progress).
C2_TokenNotLost ==
    LET t == next_token - 1 IN
    (t >= 1 /\ pc_t = "idle" /\ observed[t] = 0 /\ NoWriteInProgress)
        => settings_json.tray_snip_token = t

\* C3: an evaluation that finds on the clipboard the fingerprint an earlier
\* evaluation of this run treated as new, with no different image in between,
\* treats it as a duplicate: no upload, no search URL opened.
C3_SameFingerprintIsDuplicate ==
    ev.dup => (~ev.new /\ ~ev.posted /\ ~ev.opened)

\* C6: for a new fingerprint evaluated at a snip-close, the image is uploaded
\* exactly when tray_status is 2, or tray_status is 1 and a token was present
\* at that evaluation; never for 0 or an unrecognised value.
C6_ModeGating ==
    (pc_w = "end" /\ ev.new) =>
        /\ tray_status = StatusAlwaysOn => ev.posted
        /\ tray_status = StatusTrayOnly => (ev.posted <=> is_tray_snip)
        /\ tray_status \notin {StatusTrayOnly, StatusAlwaysOn} => ~ev.posted

\* C6 witness: Tray Only, a token was present, the new image was uploaded.
C6_Witness ==
    /\ pc_w = "end" /\ ev.new /\ ev.posted
    /\ tray_status = StatusTrayOnly /\ is_tray_snip

\* C8: while the stored mode is Paused, no step of the watch loop reads the
\* clipboard or changes last_detected_image or tray_snip_token in
\* settings.json.
C8_PausedIterationChangesNothing ==
    [][(settings_json.tray_status = StatusPause /\ clipboard_monitor_loop) =>
          /\ pc_w # "grab"
          /\ settings_json'.last_detected_image = settings_json.last_detected_image
          /\ settings_json'.tray_snip_token = settings_json.tray_snip_token]_vars

C13_BrowserOnlyForHostedUrl ==
    (ev.opened \/ ev.url_saved) => ev.response = "ok"

\* C16: the upload does not keep the watch loop from polling: when a capture
\* tool has opened and closed while the POST was in flight, the loop's next
\* poll of the process state finds the running-to-closed transition and
\* starts an evaluation.
C16_CloseDuringUploadDetected ==
    [][(pc_w = "poll" /\ ev.in_flight = "closed" /\ ev'.in_flight = "none")
          => pc_w' = "grab"]_vars

\* C17: no failure ends clipboard_monitor_loop: the loop is never left by an
\* exception from the settings, from staging the pixels or from the upload.
C17_WatchLoopNeverDies ==
    pc_w # "dead"

(***************************************************************************)
(* Claims about snipping_lens.py (specification SpecL)                     *)
(***************************************************************************)

\* C4: once monitor_clipboard has evaluated an image with fingerprint F,
\* last_clipboard_hash equals F whether the image was accepted or rejected,
\* and as long as no no-image poll, other image or clipboard error intervenes,
\* no iteration that observes F again reaches the acceptance evaluation (and
\* so none starts a delivery thread), even after a later capture-tool sighting.
C4_EvaluatedFingerprintNotReevaluated ==
    /\ last_evaluated # NoHash => last_clipboard_hash = last_evaluated
    /\ pc_mc = "check" => (last_evaluated = NoHash \/ current_hash # last_evaluated)

\* C4 witness: an image was rejected long after any sighting, a capture tool
\* was stamped afterwards, and a later poll saw the same fingerprint inside
\* the timing window and skipped it.
C4_Witness ==
    /\ mc.evaluated /\ ~mc.accepted /\ mc.elapsed = Late
    /\ last_evaluated # NoHash
    /\ mc.skipped_in_window

\* C5 as stated: a new clipboard image is accepted exactly when
\* 0 <= elapsed <= SNIP_PROCESS_TIMEOUT_SECONDS, elapsed = 0 included.
C5_ZeroElapsedAccepted ==
    mc.evaluated =>
        (mc.accepted <=> (0 <= mc.elapsed /\ mc.elapsed <= SNIP_PROCESS_TIMEOUT_SECONDS))

\* C5 amended: a new clipboard image is accepted exactly when
\* 0 < elapsed <= SNIP_PROCESS_TIMEOUT_SECONDS: elapsed equal to the timeout is
\* accepted, elapsed = 0 is rejected, elapsed beyond the timeout is rejected,
\* and so is an image evaluated when no capture process has ever been seen.
C5_AcceptedWithinWindow ==
    mc.evaluated =>
        /\ mc.accepted <=> (0 < mc.elapsed /\ mc.elapsed <= SNIP_PROCESS_TIMEOUT_SECONDS)
        /\ mc.never_seen => ~mc.accepted

\* C5 witness: an image evaluated exactly one timeout after the last sighting
\* was accepted.
C5_Witness ==
    mc.evaluated /\ mc.accepted /\ mc.elapsed = SNIP_PROCESS_TIMEOUT_SECONDS

\* C7: no delivery thread is started by a step taken while is_paused is true.
C7_NoDeliveryWhilePaused ==
    [][is_paused => Len(deliveries') = Len(deliveries)]_vars

StepOf(i) == Len(deliveries') = Len(deliveries) /\ deliveries'[i] # deliveries[i]

\* C11 as claimed: no step of process_screenshot removes a file whose path
\* was passed to it as screenshot_source.
C11_NeverDeletesSourcePath ==
    [][\A i \in 1..Len(deliveries) :
          (StepOf(i) /\ deliveries[i].src = "file_path"
           /\ deliveries[i].path \in path_files)
          => deliveries[i].path \in path_files']_vars

\* C11 as amended: process_screenshot removes a file passed by path only when
\* it was called with is_temp_xclip_file true, and monitor_clipboard passes
\* that only for the temporary file it made itself from xclip; a file passed
\* by path without the flag (one named in a clipboard file list) is removed by
\* no step of process_screenshot, on success or on failure.
C11_DeletesOnlyOwnXclipTemp ==
    /\ [](\A i \in 1..Len(deliveries) :
            deliveries[i].is_temp_xclip_file => deliveries[i].path \in XclipFiles)
    /\ [][\A i \in 1..Len(deliveries) :
            (StepOf(i) /\ deliveries[i].src = "file_path"
             /\ ~deliveries[i].is_temp_xclip_file
             /\ deliveries[i].path \in path_files)
            => deliveries[i].path \in path_files']_vars

\* C11 witness: a delivery of a file named on the clipboard has returned after
\* a failed upload, and the file is still there.
C11_Witness ==
    \E i \in 1..Len(deliveries) :
        /\ deliveries[i].pc = "done" /\ deliveries[i].src = "file_path"
        /\ ~deliveries[i].is_temp_xclip_file /\ deliveries[i].final_is_source
        /\ deliveries[i].posts = 1 /\ ~deliveries[i].url
        /\ deliveries[i].path \in path_files

C14_BrowserOnlyAfterUrl ==
    \A i \in 1..Len(deliveries) :
        LET d == deliveries[i] IN
        /\ d.posts = 1 => (d.url <=> d.outcome = "ok")
        /\ d.pc = "browse" => (d.browser = "none" /\ d.posts = 1 /\ d.url)
        /\ d.browser # "none" => (d.posts = 1 /\ d.outcome = "ok"
                                  /\ d.pc \in {"finally", "done"})

\* C14 witness: an invocation has returned after a successful upload and one
\* call of the browser.
C14_Witness ==
    \E i \in 1..Len(deliveries) :
        /\ deliveries[i].pc = "done"
        /\ deliveries[i].outcome = "ok" /\ deliveries[i].browser = "opened"

\* C15: the search URL built for a hosted file URL u is the search base,
\* "?url=", and the percent-encoded form of u.
C15_SearchUrlPercentEncoded ==
    lens_url # <<>> => lens_url = SearchBase \o PercentEncode(hosted_url)

\* C18: an enumeration failure on some other process does not cost the
\* iteration its sighting: a scan that ran with a capture tool in the process
\* table goes on to stamp last_snip_process_seen_time.
C18_ToolPresentIsStamped ==
    mp_aborted => pc_mp = "stamp"

C21_ClearedImageIsNewAgain ==
    [][/\ (pc_mc = "grab" /\ ~HoldsImage /\ pc_mc' = "top")
            => last_clipboard_hash' = NoHash
       /\ (last_clipboard_hash = NoHash /\ last_clipboard_hash' # NoHash)
            => pc_mc = "check"
       /\ (/\ McGrabImage
           /\ mc.cleared # NoHash
           /\ get_image_hash(os_clipboard.pixels) = mc.cleared)
            => (pc_mc' = "check" /\ current_hash' = mc.cleared)]_vars

\* C21 witness: the image whose fingerprint a no-image poll cleared is on the
\* clipboard again and has been passed on to the acceptance decision.
C21_Witness ==
    pc_mc = "check" /\ mc.cleared # NoHash /\ current_hash = mc.cleared

\* C22: an exception in an iteration of monitor_clipboard changes no shared
\* state when it is raised; its handler sets last_clipboard_hash to none,
\* leaves last_snip_process_seen_time, the flags and the delivery threads as
\* they are, and goes back to the top of the loop.
C22_ErrorResetsOnlyFingerprint ==
    [][/\ (pc_mc # "except" /\ pc_mc' = "except")
            => UNCHANGED <<last_clipboard_hash, last_snip_process_seen_time,
                           is_running, is_paused, deliveries, temp_files>>
       /\ ((pc_mc = "except" /\ pc_mc' # "except") \/ McGrabFails)
            => /\ pc_mc' = "top"
               /\ last_clipboard_hash' = NoHash
               /\ UNCHANGED <<last_snip_process_seen_time, is_running, is_paused,
                              deliveries, temp_files>>]_vars

\* C22 witness: an exception was raised in an iteration that began with a
\* fingerprint stored and a capture tool stamped.
C22_Witness ==
    pc_mc = "except" /\ last_clipboard_hash # NoHash /\ last_snip_process_seen_time # 0

\* C23: a delivery whose in-memory image could not be written to its
\* temporary file issues no HTTP POST and opens no browser tab; it goes from
\* the staging straight to the cleanup.
C23_StagingFailureEndsDelivery ==
    \A i \in 1..Len(deliveries) :
        (deliveries[i].src = "pil" /\ ~deliveries[i].staged)
            => /\ deliveries[i].pc \in {"stage", "finally", "done"}
               /\ deliveries[i].posts = 0
               /\ deliveries[i].browser = "none"

\* C23 witness: a delivery of an in-memory image has returned without having
\* staged it.
C23_Witness ==
    \E i \in 1..Len(deliveries) :
        deliveries[i].src = "pil" /\ ~deliveries[i].staged /\ deliveries[i].pc = "done"

\* C24: when process_screenshot has returned, no temporary file of its own
\* is left on disk.
C24_NoTempFileLeft ==
    \A i \in 1..Len(deliveries) : deliveries[i].pc = "done" => i \notin temp_files

\* C25: in TrayOnly mode a new clipboard image evaluated while a token is
\* stored is accepted, whatever has happened since the token was written.
C25_TokenHonouredAtAnyAge ==
    (ev.new /\ ev.token # NoToken /\ tray_status = StatusTrayOnly) => do_upload

\* C25 witness: the accepted image was evaluated with a token that was in
\* the store while a capture came and went without any evaluation.
C25_Witness ==
    /\ do_upload /\ tray_status = StatusTrayOnly /\ ev.new
    /\ ev.token # NoToken /\ ev.token \in missed

\* C26: the store holds one token, so of the tokens written before an
\* evaluation saw one as present only that one is ever seen: an evaluation
\* that sees token j as present is the first to see j or any token written
\* after j.
C26_OneEvaluationSeesAToken ==
    [][\A j \in Tokens :
          observed'[j] # observed[j]
              => \A k \in Tokens : k >= j => observed[k] = 0]_vars

\* C27: whenever no write of settings.json is in progress, the stored
\* tray_status, which get_tray_status returns, is the mode the config window
\* saved last: no write of the watchdog or of the tray changes it.
C27_ModeChangedOnlyByConfigWindow ==
    NoWriteInProgress => settings_json.tray_status = saved_mode

\* C28: the mode an evaluation applies is the mode the config window saved
\* last, read when the decision is taken (no save being in progress then).
C28_DecisionAppliesSavedMode ==
    [][(/\ pc_w = "status" /\ pc_w' \notin {"status", "dead"}
        /\ pc_c = "idle" /\ saved_mode \in Modes)
          => tray_status' = saved_mode]_vars

\* the accesses to last_snip_process_seen_time: it is written by
\* monitor_processes alone, inside its with block, with the clock reading of
\* that moment; monitor_clipboard reads it inside its with block
StampAccessedUnderLock ==
    /\ last_snip_process_seen_time' # last_snip_process_seen_time
         => /\ pc_mp = "locked" /\ pc_mp' # "locked"
            /\ process_state_lock = "monitor_processes"
            /\ last_snip_process_seen_time' = now
    /\ (pc_mp = "locked" /\ pc_mp' # "locked")
         => process_state_lock = "monitor_processes"
    /\ (pc_mc = "locked" /\ pc_mc' # "locked")
         => /\ process_state_lock = "monitor_clipboard"
            /\ time_since_process_seen' = now - last_snip_process_seen_time

\* C29 as claimed: last_snip_process_seen_time is written only by
\* monitor_processes, written and read only with process_state_lock held, and
\* it never decreases.
C29_StampNeverDecreases ==
    [][/\ StampAccessedUnderLock
       /\ last_snip_process_seen_time' >= last_snip_process_seen_time]_vars

\* C29 amended: last_snip_process_seen_time is written only by
\* monitor_processes, written and read only with process_state_lock held, and
\* every write stores the reading of time.time() taken at that moment (which
\* is lower than the stored one only when the system clock was set back).
C29_StampIsClockReadingUnderLock ==
    [][/\ StampAccessedUnderLock
       /\ last_snip_process_seen_time' < last_snip_process_seen_time
            => now < last_snip_process_seen_time]_vars

\* C29 witness: monitor_processes has just written the stamp and still holds
\* the lock, while monitor_clipboard waits for it with a new image.
C29_Witness ==
    /\ pc_mp = "unlock" /\ process_state_lock = "monitor_processes"
    /\ last_snip_process_seen_time = now
    /\ pc_mc = "check"

\* C30: process_state_lock is held by a watcher only between entering its
\* with block and leaving it, where it reads or writes the timestamp and
\* nothing else: never during the process enumeration, the clipboard query,
\* a sleep, the start of a thread or any step of a delivery; and whoever holds
\* it releases it with its next step but one.
C30_LockNotHeldAcrossBlockingCall ==
    /\ [](/\ process_state_lock = "monitor_processes" <=> pc_mp \in {"locked", "unlock"}
          /\ process_state_lock = "monitor_clipboard" <=> pc_mc \in {"locked", "unlock"}
          /\ process_state_lock \in {"free", "monitor_processes", "monitor_clipboard"})
    /\ [][/\ (pc_mp = "locked" /\ pc_mp' # pc_mp) => pc_mp' = "unlock"
          /\ (pc_mp = "unlock" /\ pc_mp' # pc_mp) => process_state_lock' = "free"
          /\ (pc_mc = "locked" /\ pc_mc' # pc_mc) => pc_mc' = "unlock"
          /\ (pc_mc = "unlock" /\ pc_mc' # pc_mc) => process_state_lock' = "free"]_vars

\* C30 witness: monitor_processes holds the lock while monitor_clipboard is
\* in its clipboard query and a delivery is uploading.
C30_Witness ==
    /\ process_state_lock = "monitor_processes"
    /\ pc_mc = "grab"
    /\ \E i \in 1..Len(deliveries) : deliveries[i].pc = "upload"

(***************************************************************************)
(* Several deliveries in flight (snipping_lens.py, lines 433-443)          *)
(***************************************************************************)
\* the number of process_screenshot threads followed in one run
MaxInFlight == 2

\* lines 421-452, with up to MaxInFlight accepted images in a run
McEvaluateInFlight ==
    /\ Evaluate(MaxInFlight, "check", now - last_snip_process_seen_time)
    /\ UNCHANGED time_since_process_seen

\* one step of the clipboard watcher's thread
ClipboardWatcherStep ==
    McTop \/ McGrabFails \/ McGrabNoImage \/ McGrabImage \/ McEvaluateInFlight

\* one step of the process watcher's thread
ProcessWatcherStep == MpScan \/ MpStamp

\* the contents put on the clipboard in these runs: nothing, or a screenshot
InFlightClipboard ==
    {[kind |-> "none", pixels |-> 0]} \cup [kind : {"pil"}, pixels : Images]

\* the uploads of these runs end with a URL or with a timeout
InFlightOutcomes == {"ok", "timeout"}

\* one step of the delivery thread of the i-th accepted image
DeliveryStep(i) ==
    \/ PsStage(i, TRUE)
    \/ \E outcome \in InFlightOutcomes : PsUpload(i, outcome)
    \/ PsBrowse(i, FALSE)
    \/ PsFinally(i)

NextD ==
    \/ \E d \in TickSteps : Tick(d)
    \/ ToolStartsOrStops
    \/ \E c \in InFlightClipboard : SetOsClipboard(c)
    \/ MpScan
    \/ MpStamp
    \/ McTop
    \/ McGrabFails
    \/ McGrabNoImage
    \/ McGrabImage
    \/ McEvaluateInFlight
    \/ \E i \in 1..MaxInFlight : i <= Len(deliveries) /\ DeliveryStep(i)

SpecD == InitLensRun /\ [][NextD]_vars

\* some process_screenshot thread has not returned
DeliveryInFlight == \E i \in 1..Len(deliveries) : Running(deliveries[i])

\* the only thing that holds the model's watcher back: the bound on the
\* number of threads followed
AtThreadBound ==
    /\ pc_mc = "check"
    /\ ProcessCorrelated(now - last_snip_process_seen_time)
    /\ Len(deliveries) >= MaxInFlight

\* C31: an accepted image is delivered on a thread of its own. While any
\* deliveries are in flight the clipboard watcher is at a polling position of
\* its own loop and has a step to take, and so has the process watcher; a
\* step of a delivery moves neither watcher; and an acceptance appends a new
\* delivery at its first step whatever the earlier deliveries are doing.
C31_DeliveriesNeverStallWatchers ==
    /\ [](DeliveryInFlight =>
            /\ pc_mc \in {"top", "grab", "check"}
            /\ ~AtThreadBound => ENABLED ClipboardWatcherStep
            /\ ENABLED ProcessWatcherStep)
    /\ [][(\E i \in 1..Len(deliveries) : deliveries'[i] # deliveries[i])
            => UNCHANGED <<pc_mc, pc_mp, last_clipboard_hash,
                           last_snip_process_seen_time>>]_vars
    /\ [][Len(deliveries') > Len(deliveries)
            => /\ pc_mc = "check" /\ pc_mc' = "top"
               /\ Len(deliveries') = Len(deliveries) + 1
               /\ deliveries'[Len(deliveries')].pc = "stage"
               /\ \A i \in 1..Len(deliveries) : deliveries'[i] = deliveries[i]]_vars

\* C31 witness: two deliveries are in flight at once, the earlier one in its
\* upload, and the clipboard watcher has gone on to its next poll
C31_Witness ==
    /\ Len(deliveries) = 2
    /\ deliveries[1].pc = "upload"
    /\ Running(deliveries[2])
    /\ pc_mc = "grab"

(***************************************************************************)
(* The xclip temp file of a running delivery (snipping_lens.py)            *)
(***************************************************************************)
\* C32: on Linux the temporary clipboard file handed to a process_screenshot
\* thread exists from the thread's start to the end of its upload: no later
\* iteration of monitor_clipboard unlinks it in between.
C32_HandedTempFileKeptDuringDelivery ==
    \A i \in 1..Len(deliveries) :
        (deliveries[i].is_temp_xclip_file /\ deliveries[i].pc \in {"stage", "upload"})
            => deliveries[i].path \in path_files

\* C33: while is_paused is true neither watcher changes the correlation
\* state: no step taken in a paused state changes
\* last_snip_process_seen_time or last_clipboard_hash.
C33_PausedWatchersKeepCorrelationState ==
    [][is_paused => UNCHANGED <<last_snip_process_seen_time, last_clipboard_hash>>]_vars

(***************************************************************************)
(* The edge test of clipboard_monitor_loop (tray_watchdog.py, 207-209)     *)
(***************************************************************************)
\* C34: clipboard_monitor_loop is edge-triggered. An iteration goes on to
\* read the clipboard, consume the token and decide on an upload only when a
\* capture tool was running at the previous poll and is not running at this
\* one; every other iteration changes nothing but last_snip_running, which
\* takes the value just polled.
C34_EdgeTriggered ==
    /\ [][(pc_w = "poll" /\ pc_w' # "poll") => (last_snip_running /\ ~snip_running)]_vars
    /\ [][(WdPoll /\ pc_w' = "poll")
            => /\ last_snip_running' = snip_running
               /\ UNCHANGED <<settings_json, clipboard, last_hash, wEval, raw_w,
                              consumed, observed, seen_new>>]_vars
    /\ [](pc_w = "poll" => ~ev.read_clipboard /\ ~ev.deleted /\ ~ev.posted)

\* C34 witness: in an iteration that saw the capture tool close, the loop has
\* read the clipboard, deleted the token and posted the image.
C34_Witness ==
    /\ pc_w # "poll"
    /\ last_snip_running /\ ~snip_running
    /\ ev.read_clipboard /\ ev.deleted /\ ev.posted

(***************************************************************************)
(* Shutdown of tray_watchdog.py: the exit signal file, the tray monitor    *)
(* and the main thread                                                     *)
(***************************************************************************)
\* line 280: max_missing = 5
max_missing == 5

\* tray starts, tray ends and console interrupts in one run
MaxTrayEvents == 3

CounterNeverReset(found, counter) == IF found THEN counter ELSE counter + 1

\* lines 286-287 and 293-294: a miss adds one, a sighting resets the counter
CounterAfterCheck(found, counter) == IF found THEN 0 ELSE counter + 1

SignalsAtFirstMiss(counter) == counter >= 1

\* line 288: if missing_counter >= max_missing
SignalsExit(counter) == counter >= max_missing

\* the latest max_missing + 1 results, oldest first
Latest(checks) ==
    IF Len(checks) > max_missing + 1 THEN SubSeq(checks, 2, Len(checks)) ELSE checks

shutdownHist == <<tm_checks, main_removed, created_again>>

\* sniplens.py, TrayApp.exit_app, lines 232-254: the tray writes the exit
\* signal file and ends its process
TrayExitApp ==
    /\ tray_process
    /\ q_events < MaxTrayEvents
    /\ q_events' = q_events + 1
    /\ exit_watchdog' = TRUE
    /\ tray_process' = FALSE
    /\ UNCHANGED <<varsW, varsL, varsP, varsI, varsH, missing_counter, pc_tm, pc_cl, pc_main,
                   shutdownHist>>

\* the tray process ends without exit_app (kill_tray, lines 126-133, or a crash)
TrayEnds ==
    /\ tray_process
    /\ q_events < MaxTrayEvents
    /\ q_events' = q_events + 1
    /\ tray_process' = FALSE
    /\ UNCHANGED <<varsW, varsL, varsP, varsI, varsH, exit_watchdog, missing_counter, pc_tm, pc_cl,
                   pc_main, shutdownHist>>

\* launch_tray, lines 121-123 (SettingsHandler), or a start by the user
TrayStarts ==
    /\ ~tray_process
    /\ q_events < MaxTrayEvents
    /\ q_events' = q_events + 1
    /\ tray_process' = TRUE
    /\ UNCHANGED <<varsW, varsL, varsP, varsI, varsH, exit_watchdog, missing_counter, pc_tm, pc_cl,
                   pc_main, shutdownHist>>

\* lines 204-205: clipboard_monitor_loop finds the file at the top of an
\* iteration and breaks (an iteration that does not find it is not followed here)
ClTest ==
    /\ pc_cl = "loop"
    /\ exit_watchdog
    /\ pc_cl' = "left"
    /\ UNCHANGED <<varsW, varsL, varsP, varsI, varsH, exit_watchdog, tray_process, missing_counter,
                   pc_tm, pc_main, q_events, shutdownHist>>

\* lines 283-284: watchdog_tray_monitor tests for the file
TmTest ==
    /\ pc_tm = "test"
    /\ pc_tm' = IF exit_watchdog THEN "left" ELSE "check"
    /\ UNCHANGED <<varsW, varsL, varsP, varsI, varsH, exit_watchdog, tray_process, missing_counter,
                   pc_cl, pc_main, q_events, shutdownHist>>

\* lines 286-294: one check of the process table, and the signal on the
\* fifth miss in a row
TmCheck ==
    /\ pc_tm = "check"
    /\ LET found == tray_process
           counter == CounterAfterCheck(found, missing_counter)
           signals == ~found /\ SignalsExit(counter)
       IN
       /\ missing_counter' = counter
       /\ tm_checks' = Latest(Append(tm_checks, found))
       /\ exit_watchdog' = IF signals THEN TRUE ELSE exit_watchdog
       /\ created_again' = (created_again \/ (signals /\ main_removed /\ ~exit_watchdog))
       /\ pc_tm' = IF signals THEN "left" ELSE "test"
    /\ UNCHANGED <<varsW, varsL, varsP, varsI, varsH, tray_process, pc_cl, pc_main, q_events,
                   main_removed>>

watchdog_tray_monitor == TmTest \/ TmCheck

\* lines 332-333: the main thread polls for the file
MainWait ==
    /\ pc_main = "wait"
    /\ exit_watchdog
    /\ pc_main' = "remove"
    /\ UNCHANGED <<varsW, varsL, varsP, varsI, varsH, exit_watchdog, tray_process, missing_counter,
                   pc_tm, pc_cl, q_events, shutdownHist>>

\* lines 335-340: it removes the file and goes to the finally block
MainRemove ==
    /\ pc_main = "remove"
    /\ exit_watchdog' = FALSE
    /\ main_removed' = TRUE
    /\ pc_main' = "finally"
    /\ UNCHANGED <<varsW, varsL, varsP, varsI, varsH, tray_process, missing_counter, pc_tm, pc_cl,
                   q_events, tm_checks, created_again>>

\* lines 342-345: KeyboardInterrupt inside the try block; the handler writes
\* the file itself
MainInterrupt ==
    /\ pc_main \in {"wait", "remove"}
    /\ q_events < MaxTrayEvents
    /\ q_events' = q_events + 1
    /\ exit_watchdog' = TRUE
    /\ pc_main' = "finally"
    /\ UNCHANGED <<varsW, varsL, varsP, varsI, varsH, tray_process, missing_counter, pc_tm, pc_cl,
                   shutdownHist>>

\* lines 347-350: observer.stop(), observer.join(), and the process ends;
\* the daemon threads (lines 324-325) end with it wherever they are
MainFinally ==
    /\ pc_main = "finally"
    /\ pc_main' = "exited"
    /\ pc_tm' = IF pc_tm = "left" THEN "left" ELSE "ended"
    /\ pc_cl' = IF pc_cl = "left" THEN "left" ELSE "ended"
    /\ UNCHANGED <<varsW, varsL, varsP, varsI, varsH, exit_watchdog, tray_process, missing_counter,
                   q_events, shutdownHist>>

watchdog_main == MainWait \/ MainRemove \/ MainFinally

NextS ==
    \/ TrayExitApp
    \/ TrayEnds
    \/ TrayStarts
    \/ ClTest
    \/ TmTest
    \/ TmCheck
    \/ MainWait
    \/ MainRemove
    \/ MainInterrupt
    \/ MainFinally

\* each thread of the watchdog is scheduled again and again
SpecS ==
    /\ InitLensRun /\ [][NextS]_vars
    /\ WF_vars(watchdog_main) /\ WF_vars(watchdog_tray_monitor) /\ WF_vars(ClTest)

\* C35: once the exit signal file exists, clipboard_monitor_loop and
\* watchdog_tray_monitor each come to see it and leave their loop; after the
\* main thread has removed the file no thread of the watchdog creates it
\* again; and no exit signal file is there when the watchdog has ended.
C35_ShutdownLeavesNoExitFile ==
    /\ [](pc_main = "exited" => ~exit_watchdog)
    /\ []~created_again
    /\ exit_watchdog ~> (pc_cl = "left" /\ pc_tm = "left")

\* C36: watchdog_tray_monitor writes the exit signal file only at the fifth
\* of five consecutive checks that found no tray process; a check that finds
\* the tray sets the counter to zero; and below five the loop never writes.
C36_ExitOnlyAfterFiveMisses ==
    /\ [][(TmCheck /\ tray_process) => missing_counter' = 0]_vars
    /\ [][(TmCheck /\ exit_watchdog' # exit_watchdog)
            => /\ Len(tm_checks') >= max_missing
               /\ \A k \in 1..max_missing :
                     ~tm_checks'[Len(tm_checks') - max_missing + k]
               /\ missing_counter' >= max_missing]_vars
    /\ [][(TmCheck /\ missing_counter' < max_missing) => UNCHANGED exit_watchdog]_vars

\* C36 witness: the tray was seen, then missed five times in a row, and the
\* loop has written the file and left.
C36_Witness ==
    /\ pc_tm = "left"
    /\ exit_watchdog
    /\ Len(tm_checks) = max_missing + 1
    /\ tm_checks[1]
    /\ missing_counter = max_missing

(***************************************************************************)
(* singleton_lock (tray_watchdog.py, lines 28-51; sniplens.py, lines 24-45 *)
(* is the same code with its own lock file)                                *)
(***************************************************************************)
lockOthers == <<varsW, varsL, varsP, varsS, varsH>>

\* lines 33-37: psutil.pid_exists(pid), and the process is a python process
\* running this script
IsLiveInstance(pid) == pid \in Instances /\ pc_lock[pid] \notin {"idle", "exited"}

\* the program is started once more
StartInstance(p) ==
    /\ pc_lock[p] = "idle"
    /\ pc_lock' = [pc_lock EXCEPT ![p] = "exists"]
    /\ UNCHANGED <<lockOthers, lockfile>>

\* line 29: if os.path.exists(LOCKFILE)
LkExists(p) ==
    /\ pc_lock[p] = "exists"
    /\ pc_lock' = [pc_lock EXCEPT ![p] = IF lockfile # NoLockFile THEN "read" ELSE "open"]
    /\ UNCHANGED <<lockOthers, lockfile>>

\* lines 30-45: read the pid and look the process up; sys.exit(0) when it is
\* a live instance, else (no such process, an empty or vanished file: the
\* exception is swallowed) go on to remove the file
LkRead(p) ==
    /\ pc_lock[p] = "read"
    /\ pc_lock' = [pc_lock EXCEPT
                     ![p] = IF lockfile \notin {NoLockFile, EmptyLockFile}
                               /\ IsLiveInstance(lockfile)
                            THEN "exited" ELSE "remove"]
    /\ UNCHANGED <<lockOthers, lockfile>>

\* lines 46-49: os.remove(LOCKFILE), errors ignored
LkRemove(p) ==
    /\ pc_lock[p] = "remove"
    /\ lockfile' = NoLockFile
    /\ pc_lock' = [pc_lock EXCEPT ![p] = "open"]
    /\ UNCHANGED lockOthers

\* line 50: open(LOCKFILE, "w") creates or truncates the file
LkOpen(p) ==
    /\ pc_lock[p] = "open"
    /\ lockfile' = EmptyLockFile
    /\ pc_lock' = [pc_lock EXCEPT ![p] = "write"]
    /\ UNCHANGED lockOthers

\* line 51: f.write(str(os.getpid())); the process goes on past the lock
LkWrite(p) ==
    /\ pc_lock[p] = "write"
    /\ lockfile' = p
    /\ pc_lock' = [pc_lock EXCEPT ![p] = "running"]
    /\ UNCHANGED lockOthers

\* lines 54-64: a clean exit runs remove_lock, which removes the file
\* whatever pid it holds
InstanceExits(p) ==
    /\ pc_lock[p] = "running"
    /\ lockfile' = NoLockFile
    /\ pc_lock' = [pc_lock EXCEPT ![p] = "exited"]
    /\ UNCHANGED lockOthers

\* the process is killed: no atexit handler runs
InstanceKilled(p) ==
    /\ pc_lock[p] = "running"
    /\ pc_lock' = [pc_lock EXCEPT ![p] = "exited"]
    /\ UNCHANGED <<lockOthers, lockfile>>

singleton_lock(p) == LkExists(p) \/ LkRead(p) \/ LkRemove(p) \/ LkOpen(p) \/ LkWrite(p)

NextI ==
    \E p \in Instances :
        \/ StartInstance(p)
        \/ singleton_lock(p)
        \/ InstanceExits(p)
        \/ InstanceKilled(p)

SpecI == InitLensRun /\ [][NextI]_vars

\* C37: of two processes of the program that are alive, at most one has
\* gone on past singleton_lock.
C37_AtMostOneInstancePastLock ==
    \A p, q \in Instances :
        (p # q /\ pc_lock[p] = "running") => pc_lock[q] # "running"

(***************************************************************************)
(* SettingsHandler and the writers of settings.json (tray_watchdog.py,     *)
(* lines 109-118 and 298-316)                                              *)
(***************************************************************************)
\* writes of settings.json in one run
MaxWrites == 4

\* modification events that can wait for the handler
MaxPending == 2

handlerOthers == <<varsW, varsL, varsP, varsS, varsI>>

\* tray_setting, lines 109-118: the stored value, and True when the file
\* cannot be read or parsed
tray_setting(whole, value) == IF whole THEN value ELSE TRUE

Queued(n) == IF n < MaxPending THEN n + 1 ELSE n

\* update_settings (lines 179-197), icon_clicked and save_settings: a writer
\* that keeps tray_ui_enabled opens the file for writing, which empties it
KeepingWriteOpen ==
    /\ pc_wr = "idle"
    /\ h_events < MaxWrites
    /\ h_events' = h_events + 1
    /\ file_whole' = FALSE
    /\ wr_value' = ui_enabled
    /\ pc_wr' = "dump"
    /\ pending' = Queued(pending)
    /\ UNCHANGED <<handlerOthers, ui_enabled, last_state, tray_up, synced_value, h_action>>

\* sniplens.py, exit_app, lines 233-247: the tray stores tray_ui_enabled = False
ExitAppOpen ==
    /\ pc_wr = "idle"
    /\ tray_up
    /\ h_events < MaxWrites
    /\ h_events' = h_events + 1
    /\ file_whole' = FALSE
    /\ wr_value' = FALSE
    /\ pc_wr' = "exit_dump"
    /\ pending' = Queued(pending)
    /\ UNCHANGED <<handlerOthers, ui_enabled, last_state, tray_up, synced_value, h_action>>

\* json.dump and close: the file is whole again; after its write the tray
\* process ends (os._exit, line 254)
WriteDump ==
    /\ pc_wr \in {"dump", "exit_dump"}
    /\ file_whole' = TRUE
    /\ ui_enabled' = wr_value
    /\ tray_up' = IF pc_wr = "exit_dump" THEN FALSE ELSE tray_up
    /\ pc_wr' = "idle"
    /\ pending' = Queued(pending)
    /\ UNCHANGED <<handlerOthers, wr_value, last_state, h_events, synced_value, h_action>>

\* SettingsHandler.on_modified, lines 307-316, for one event on settings.json
on_modified ==
    /\ pending > 0
    /\ pending' = pending - 1
    /\ LET current_state == tray_setting(file_whole, ui_enabled)
       IN
       /\ last_state' = current_state
       /\ tray_up' = IF current_state # last_state THEN current_state ELSE tray_up
       /\ h_action' = IF current_state = last_state THEN "none"
                      ELSE IF ~current_state THEN "kill"
                      ELSE IF ~tray_up THEN "launch" ELSE "none"
    /\ synced_value' = ui_enabled
    /\ UNCHANGED <<handlerOthers, ui_enabled, file_whole, wr_value, pc_wr, h_events>>

NextH ==
    \/ KeepingWriteOpen
    \/ ExitAppOpen
    \/ WriteDump
    \/ on_modified

SpecH == InitLensRun /\ [][NextH]_vars

\* C38: on_modified launches or kills the tray only when the stored value of
\* tray_ui_enabled has changed since the handler last compared it; an event
\* for a write that keeps the value, seen with the file whole or partly
\* written, launches nothing and kills nothing.
C38_TrayToggledOnlyOnStoredChange ==
    [][(on_modified /\ h_action' # "none") => ui_enabled # synced_value]_vars
====
